---- MODULE Spec2Model ----
(***************************************************************************)
(* Model of the disaster-app backend: the in-memory user store             *)
(* (backend/app/database.py), the token service and session dependency     *)
(* (backend/app/auth.py) and the request handlers (backend/app/main.py).    *)
(*                                                                         *)
(* Time is counted in minutes.  Python strings are TLA+ strings, Python     *)
(* None is the string None, a key absent from a dict is either absent from  *)
(* the DOMAIN of the function that models the dict or, in a request body,   *)
(* carries the marker Unset.                                                *)
(***************************************************************************)
EXTENDS Integers, Sequences, FiniteSets, TLC

\* ------------------------------------------------------------------ bounds
MaxTokens == 2
MaxTime == 31

\* ------------------------------------------------------- input alphabets
Ids == {"u1", "u2"}
GhostId == "u0"
Emails == {"alice@x.com", "bob@x.com"}
Passwords == {"pw123", "hunter2"}
Salts == {"s1", "s2"}
RequestSalts == {"s1"}
StoredPasswords == {"pw123"}
ProfileVals == {"X"}
None == "None"
Unset == "Unset"

\* ------------------------------------------------------------------- state
\* users_db: the collection; now: the clock; issued: the tokens handed out and
\* still held by clients; registered: the (email, password, id) of every signup
\* that returned a user; resp and calls: the response to the latest request
\* and the functions it invoked, in order.
\* tasks and loop: the request coroutines the event loop has accepted, each
\* with its position in the handler, and the coroutine that holds the loop.
\* TEST_STATUSES: the dict of the test runner, test id to entry; runs: the
\* background tasks run_playwright_test, each with its arguments, its position
\* and what the subprocess call gave.
VARIABLES users_db, now, issued, registered, resp, calls, tasks, loop,
          TEST_STATUSES, runs

\* ------------------------------------------------------------ auth.py
SECRET_KEY == "insecure-demo-secret-key"
OtherKey == "some-other-key"
ACCESS_TOKEN_EXPIRE_MINUTES == 30

\* Optional[timedelta]: None, or a number of minutes.
NoDelta == [set |-> FALSE, minutes |-> 0]
timedelta(m) == [set |-> TRUE, minutes |-> m]
\* Python truthiness of an Optional[timedelta]: None and timedelta(0) are falsy.
Truthy(delta) == delta.set /\ delta.minutes # 0

\* HS256 as an ideal MAC: the signature determines the key and the signed claims.
Sign(claims, key) == [key |-> key, claims |-> claims]
jwt_encode(claims, key) == [fmt |-> "jwt", claims |-> claims, sig |-> Sign(claims, key)]

EmptyDict == [k \in {} |-> None]
NoToken == [fmt |-> "absent", claims |-> EmptyDict, sig |-> Sign(EmptyDict, "")]
Garbage == [fmt |-> "garbage", claims |-> EmptyDict, sig |-> Sign(EmptyDict, "")]

\* jwt.decode with the expiry check left out.
jwt_decode_noexp(token, key, t) ==
    IF token.fmt # "jwt"
    THEN [ok |-> FALSE, err |-> "JWTError", claims |-> EmptyDict]
    ELSE IF token.sig # Sign(token.claims, key)
    THEN [ok |-> FALSE, err |-> "JWTError", claims |-> EmptyDict]
    ELSE [ok |-> TRUE, err |-> "", claims |-> token.claims]

\* jwt.decode that trusts the key named in the token instead of the given one.
jwt_decode_nosig(token, key, t) ==
    IF token.fmt # "jwt"
    THEN [ok |-> FALSE, err |-> "JWTError", claims |-> EmptyDict]
    ELSE IF token.sig # Sign(token.sig.claims, token.sig.key)
    THEN [ok |-> FALSE, err |-> "JWTError", claims |-> EmptyDict]
    ELSE IF "exp" \in DOMAIN token.claims /\ token.claims["exp"] < t
    THEN [ok |-> FALSE, err |-> "ExpiredSignatureError", claims |-> EmptyDict]
    ELSE [ok |-> TRUE, err |-> "", claims |-> token.claims]

\* jose.jwt.decode(token, key, algorithms=[HS256]) at time t: the structure is
\* parsed first, then the signature is checked, then the exp claim.
jwt_decode(token, key, t) ==
    IF token.fmt # "jwt"
    THEN [ok |-> FALSE, err |-> "JWTError", claims |-> EmptyDict]
    ELSE IF token.sig # Sign(token.claims, key)
    THEN [ok |-> FALSE, err |-> "JWTError", claims |-> EmptyDict]
    ELSE IF "exp" \in DOMAIN token.claims /\ token.claims["exp"] < t
    THEN [ok |-> FALSE, err |-> "ExpiredSignatureError", claims |-> EmptyDict]
    ELSE [ok |-> TRUE, err |-> "", claims |-> token.claims]

\* An except clause that names the base class only by its own name.
JWTError_narrow == {"JWTError", "JWTClaimsError"}

\* The exception classes that `except JWTError` catches.
JWTError == {"JWTError", "ExpiredSignatureError", "JWTClaimsError"}

\* create_access_token with exp set to the lifetime instead of now + lifetime.
\* create_access_token with a default lifetime of 15 minutes.
create_access_token_default15(data, expires_delta, t) ==
    LET delta == IF Truthy(expires_delta) THEN expires_delta.minutes ELSE 15
        expire == t + delta
        to_encode == [k \in (DOMAIN data) \cup {"exp"} |->
                        IF k = "exp" THEN expire ELSE data[k]]
    IN jwt_encode(to_encode, SECRET_KEY)

create_access_token_relative(data, expires_delta, t) ==
    LET delta == IF Truthy(expires_delta) THEN expires_delta.minutes
                 ELSE ACCESS_TOKEN_EXPIRE_MINUTES
        to_encode == [k \in (DOMAIN data) \cup {"exp"} |->
                        IF k = "exp" THEN delta ELSE data[k]]
    IN jwt_encode(to_encode, SECRET_KEY)

create_access_token(data, expires_delta, t) ==
    LET delta == IF Truthy(expires_delta) THEN expires_delta.minutes
                 ELSE ACCESS_TOKEN_EXPIRE_MINUTES
        expire == t + delta
        to_encode == [k \in (DOMAIN data) \cup {"exp"} |->
                        IF k = "exp" THEN expire ELSE data[k]]
    IN jwt_encode(to_encode, SECRET_KEY)

\* The outcome of verify_token: the exception that escapes it ("" when none
\* does) and the value it returns.
verify_token_outcome(token, t) ==
    LET r == jwt_decode(token, SECRET_KEY, t) IN
    IF ~r.ok
    THEN IF r.err \in JWTError THEN [exc |-> "", value |-> None]
         ELSE [exc |-> r.err, value |-> None]
    ELSE IF "sub" \notin DOMAIN r.claims THEN [exc |-> "", value |-> None]
    ELSE [exc |-> "", value |-> r.claims["sub"]]

\* verify_token of a server that keeps one session per user: a token is
\* refused once a later one was issued for the same subject.
verify_token_onesession(token, t) ==
    IF \E o \in issued : /\ "sub" \in DOMAIN o.claims /\ "sub" \in DOMAIN token.claims
                         /\ o.claims["sub"] = token.claims["sub"]
                         /\ o.claims["exp"] > token.claims["exp"]
    THEN None
    ELSE verify_token_outcome(token, t).value

verify_token(token, t) == verify_token_outcome(token, t).value

\* Session dependency: OAuth2PasswordBearer (no Authorization header, or not a
\* bearer one, gives 401 before the handler's dependency runs), then
\* get_current_user_id.
Response(op, status, detail, challenge, body, token) ==
    [op |-> op, status |-> status, detail |-> detail, challenge |-> challenge,
     body |-> body, token |-> token]

oauth2_scheme(op, token) ==
    Response(op, 401, "Not authenticated", "Bearer", EmptyDict, NoToken)

\* get_current_user_id without the raise: None is handed to the handler.
get_current_user_id_noraise(op, token, t) ==
    LET o == verify_token_outcome(token, t) IN
    [ok |-> TRUE, user_id |-> o.value,
     resp |-> Response(op, 200, "", "", EmptyDict, NoToken)]

get_current_user_id(op, token, t) ==
    LET o == verify_token_outcome(token, t) IN
    IF o.exc # ""
    THEN [ok |-> FALSE, user_id |-> None,
          resp |-> Response(op, 500, o.exc, "", EmptyDict, NoToken)]
    ELSE IF o.value = None
    THEN [ok |-> FALSE, user_id |-> None,
          resp |-> Response(op, 401, "Invalid authentication credentials", "Bearer",
                            EmptyDict, NoToken)]
    ELSE [ok |-> TRUE, user_id |-> o.value,
          resp |-> Response(op, 200, "", "", EmptyDict, NoToken)]

\* ------------------------------------------------------------ database.py
\* users_db is a Python dict: a sequence of entries [id, rec] in insertion order
\* with pairwise distinct ids; rec is the stored dict.
Contains(db, user_id) == \E i \in 1..Len(db) : db[i].id = user_id
IndexOf(db, user_id) == CHOOSE i \in 1..Len(db) : db[i].id = user_id
Lookup(db, user_id) == db[IndexOf(db, user_id)].rec
DictSet(db, user_id, rec) ==
    IF Contains(db, user_id)
    THEN [db EXCEPT ![IndexOf(db, user_id)] = [id |-> user_id, rec |-> rec]]
    ELSE Append(db, [id |-> user_id, rec |-> rec])

\* {**user, "id": user_id}
WithId(rec, user_id) ==
    [k \in (DOMAIN rec) \cup {"id"} |-> IF k = "id" THEN user_id ELSE rec[k]]
\* dict.get(key)
DictGet(d, k) == IF k \in DOMAIN d THEN d[k] ELSE None

\* bcrypt: the hash string carries the salt and the digest of (salt, password).
pwd_hash(password, salt) == "$2b$" \o salt \o "$" \o password
\* verify_password comparing the plain password with the stored string.
verify_password_plain(plain_password, hashed_password) ==
    plain_password = hashed_password

verify_password(plain_password, hashed_password) ==
    \E salt \in Salts : pwd_hash(plain_password, salt) = hashed_password

\* get_user_by_email returning the stored dict with the email as its id.
get_user_by_email_emailid(db, email) ==
    LET hits == {i \in 1..Len(db) : db[i].rec["email"] = email} IN
    IF hits = {} THEN EmptyDict
    ELSE LET first == CHOOSE i \in hits : \A j \in hits : i <= j
         IN WithId(db[first].rec, db[first].rec["email"])

\* get_user_by_email comparing the dict key with the email.
get_user_by_email_bykey(db, email) ==
    LET hits == {i \in 1..Len(db) : db[i].id = email} IN
    IF hits = {} THEN EmptyDict
    ELSE LET first == CHOOSE i \in hits : \A j \in hits : i <= j
         IN WithId(db[first].rec, db[first].id)

\* The first entry in iteration order whose email matches; the empty dict
\* stands for None (both are falsy, and a found user is never empty).
get_user_by_email(db, email) ==
    LET hits == {i \in 1..Len(db) : db[i].rec["email"] = email} IN
    IF hits = {} THEN EmptyDict
    ELSE LET first == CHOOSE i \in hits : \A j \in hits : i <= j
         IN WithId(db[first].rec, db[first].id)

NewRecord(email, hashed_password) ==
    [email |-> email, hashed_password |-> hashed_password,
     fullName |-> None, username |-> None, website |-> None]

\* create_user rebinding users_db to a dict that holds the new record only.
create_user_rebind(db, email, password, salt, user_id) ==
    <<[id |-> user_id, rec |-> NewRecord(email, pwd_hash(password, salt))]>>

\* create_user: the collection after the insert; salt and user_id are the
\* random draws of bcrypt and uuid4.
create_user(db, email, password, salt, user_id) ==
    DictSet(db, user_id, NewRecord(email, pwd_hash(password, salt)))

\* The exclusion list without the email.
ProtectedKeys_noemail == {"id", "hashed_password"}

ProtectedKeys == {"id", "email", "hashed_password"}

\* update_user storing the values that are None as well.
updated_record_withnone(rec, update_data) ==
    LET applied == {k \in DOMAIN update_data : k \notin ProtectedKeys}
    IN [k \in (DOMAIN rec) \cup applied |->
          IF k \in applied THEN update_data[k] ELSE rec[k]]

\* update_user: the record after the loop over update_data.
updated_record(rec, update_data) ==
    LET applied == {k \in DOMAIN update_data :
                      update_data[k] # None /\ k \notin ProtectedKeys}
    IN [k \in (DOMAIN rec) \cup applied |->
          IF k \in applied THEN update_data[k] ELSE rec[k]]

\* update_user creating the record when the id is unknown.
update_user_upsert(db, user_id, update_data) ==
    IF ~Contains(db, user_id)
    THEN DictSet(db, user_id, updated_record(NewRecord("", ""), update_data))
    ELSE DictSet(db, user_id, updated_record(Lookup(db, user_id), update_data))

\* update_user: the collection afterwards, and the returned dict (empty: None).
update_user(db, user_id, update_data) ==
    IF ~Contains(db, user_id) THEN db
    ELSE DictSet(db, user_id, updated_record(Lookup(db, user_id), update_data))

update_user_result(db, user_id, update_data) ==
    IF ~Contains(db, user_id) THEN EmptyDict
    ELSE WithId(updated_record(Lookup(db, user_id), update_data), user_id)

\* ------------------------------------------------------------ models.py
UserUpdateFields == {"fullName", "username", "website"}
UserFields == {"email", "id", "fullName", "username", "website"}
AllKeys == UserFields \cup {"hashed_password"}

\* UserUpdate(**body).dict(exclude_unset=True): fields the model does not
\* declare are ignored, fields the body does not carry are left out.
UserUpdate_dict(body) ==
    LET present == {k \in UserUpdateFields : body[k] # Unset}
    IN [k \in present |-> body[k]]

\* A handler that returns the stored dict, with no response model.
user_response_full(user_id, user) == WithId(user, user_id)

\* The dict a handler returns, serialized through response_model=User.
user_response(user_id, user) ==
    LET returned == [id |-> user_id,
                     email |-> user["email"],
                     fullName |-> DictGet(user, "fullName"),
                     username |-> DictGet(user, "username"),
                     website |-> DictGet(user, "website")]
    IN [k \in UserFields \cap DOMAIN returned |-> returned[k]]

\* ------------------------------------------------------------ main.py
loop_vars == <<tasks, loop>>
runner_vars == <<TEST_STATUSES, runs>>
vars == <<users_db, now, issued, registered, resp, calls, tasks, loop,
          TEST_STATUSES, runs>>

\* One function invocation of the request being handled: the flag context or
\* argument it was given, and what it returned where the handler branches on it.
Invocation(fn, arg, ret) == [fn |-> fn, arg |-> arg, ret |-> ret]
Call(fn, arg) == Invocation(fn, arg, "")
Bool(b) == IF b THEN "True" ELSE "False"

get_anonymous_context == "anonymous-user"
create_user_context(user_id, email) == user_id

\* The two flag evaluations of signup and login; both are always made.
Variations(context, new_auth, disaster_mode) ==
    <<Invocation("variation:release-new-auth", context, Bool(new_auth)),
      Invocation("variation:enable-disaster-mode", context, Bool(disaster_mode))>>

\* throw_demo_error: the track event, then the 500.
throw_demo_error_calls_anon(context) ==
    <<Call("track:http.500", get_anonymous_context)>>

throw_demo_error_calls(context) == <<Call("track:http.500", context)>>
throw_demo_error(op) ==
    Response(op, 500, "Service temporarily unavailable. Please try again later.",
             "", EmptyDict, NoToken)

IsNone(d) == DOMAIN d = {}

\* The calls of get_user_by_email and verify_password made by the handlers,
\* with what they returned (a record or None; True or False).
FindUser(user) ==
    Invocation("get_user_by_email", "", IF IsNone(user) THEN None ELSE "user")
CheckPassword(password, user) ==
    Invocation("verify_password", "",
               Bool(verify_password(password, user["hashed_password"])))

\* Request bodies of PATCH /api/me: JSON objects with at most one key, a
\* profile field set to a string or to null, or a key UserUpdate does not declare.
\* The three profile fields are handled by the same loop; the requests set one.
BodyKeys == {"fullName"}
ExtraKeys == {"id", "email", "hashed_password"}
Body(key, value) == [k \in AllKeys |-> IF k = key THEN value ELSE Unset]
Bodies ==
    {Body(k, v) : k \in BodyKeys, v \in {None} \cup ProfileVals}
    \cup {Body(k, v) : k \in ExtraKeys, v \in ProfileVals}
    \cup {[k \in AllKeys |-> Unset]}

\* The bearer tokens a client can present: the issued ones, copies of them
\* signed with another key or with the subject changed, garbage, and tokens of
\* a holder of the signing key (one without sub, one of an earlier process
\* lifetime whose subject is not in the collection).
PresentedTokens ==
    issued
    \cup {jwt_encode(t.claims, OtherKey) : t \in issued}
    \cup {[t EXCEPT !.claims = [t.claims EXCEPT !["sub"] = GhostId]] : t \in issued}
    \cup {Garbage,
          jwt_encode([exp |-> now], SECRET_KEY),
          jwt_encode([sub |-> GhostId, exp |-> now], SECRET_KEY)}

\* The coroutines of concurrent requests: idle until a request is accepted.
TaskIds == {1, 2}
IdleTask == [pc |-> "idle", email |-> "", password |-> "", status |-> 0]

Init ==
    /\ users_db = << >>
    /\ now = 0
    /\ issued = {}
    /\ registered = {}
    /\ resp = Response("init", 0, "", "", EmptyDict, NoToken)
    /\ calls = << >>
    /\ tasks = [r \in TaskIds |-> IdleTask]
    /\ loop = 0
    /\ TEST_STATUSES = EmptyDict
    /\ runs = EmptyDict

\* signup calling create_user before it evaluates the flags.
Signup_createfirst(email, password, salt, new_auth, disaster_mode) ==
    LET existing_user == get_user_by_email(users_db, email)
        anon_context == get_anonymous_context
    IN /\ UNCHANGED <<now, issued, loop_vars, runner_vars>>
       /\ IF ~IsNone(existing_user)
          THEN /\ resp' = Response("signup", 400, "Email already registered", "",
                                   EmptyDict, NoToken)
               /\ calls' = <<FindUser(existing_user)>>
               /\ UNCHANGED <<users_db, registered>>
          ELSE \E user_id \in Ids :
               /\ ~Contains(users_db, user_id)
               /\ users_db' = create_user(users_db, email, password, salt, user_id)
               /\ IF new_auth \/ disaster_mode
                  THEN /\ resp' = throw_demo_error("signup")
                       /\ calls' = <<FindUser(existing_user), Call("create_user", "")>>
                                   \o Variations(anon_context, new_auth, disaster_mode)
                                   \o throw_demo_error_calls(anon_context)
                       /\ UNCHANGED registered
                  ELSE /\ registered' = registered \cup
                              {[email |-> email, password |-> password, id |-> user_id]}
                       /\ resp' = Response("signup", 200, "", "",
                                           user_response(user_id,
                                                         Lookup(users_db', user_id)),
                                           NoToken)
                       /\ calls' = <<FindUser(existing_user), Call("create_user", "")>>
                                   \o Variations(anon_context, new_auth, disaster_mode)

\* POST /api/signup
Signup(email, password, salt, new_auth, disaster_mode) ==
    LET existing_user == get_user_by_email(users_db, email)
        anon_context == get_anonymous_context
    IN /\ UNCHANGED <<now, issued, loop_vars, runner_vars>>
       /\ IF ~IsNone(existing_user)
          THEN /\ resp' = Response("signup", 400, "Email already registered", "",
                                   EmptyDict, NoToken)
               /\ calls' = <<FindUser(existing_user)>>
               /\ UNCHANGED <<users_db, registered>>
          ELSE IF new_auth \/ disaster_mode
          THEN /\ resp' = throw_demo_error("signup")
               /\ calls' = <<FindUser(existing_user)>>
                           \o Variations(anon_context, new_auth, disaster_mode)
                           \o throw_demo_error_calls(anon_context)
               /\ UNCHANGED <<users_db, registered>>
          ELSE \E user_id \in Ids :
               /\ ~Contains(users_db, user_id)
               /\ users_db' = create_user(users_db, email, password, salt, user_id)
               /\ registered' = registered \cup
                      {[email |-> email, password |-> password, id |-> user_id]}
               /\ resp' = Response("signup", 200, "", "",
                                   user_response(user_id, Lookup(users_db', user_id)),
                                   NoToken)
               /\ calls' = <<FindUser(existing_user)>>
                           \o Variations(anon_context, new_auth, disaster_mode)
                           \o <<Call("create_user", "")>>

\* login issuing a token whatever verify_password returned.
login_outcome_anypw(user, password, new_auth, disaster_mode) ==
    IF IsNone(user) THEN "REJECTED_NO_SUCH_USER"
    ELSE IF new_auth \/ disaster_mode THEN "INJECTED_FAILURE"
    ELSE "TOKEN_ISSUED"

\* login testing the password before the flags.
login_outcome_pwfirst(user, password, new_auth, disaster_mode) ==
    IF IsNone(user) THEN "REJECTED_NO_SUCH_USER"
    ELSE IF ~verify_password(password, user["hashed_password"])
    THEN "REJECTED_BAD_CREDENTIALS"
    ELSE IF new_auth \/ disaster_mode THEN "INJECTED_FAILURE"
    ELSE "TOKEN_ISSUED"

\* The branch a login takes, in the order the handler tests: identity lookup,
\* fault check, password check.
login_outcome(user, password, new_auth, disaster_mode) ==
    IF IsNone(user) THEN "REJECTED_NO_SUCH_USER"
    ELSE IF new_auth \/ disaster_mode THEN "INJECTED_FAILURE"
    ELSE IF ~verify_password(password, user["hashed_password"])
    THEN "REJECTED_BAD_CREDENTIALS"
    ELSE "TOKEN_ISSUED"

\* POST /api/token
Login(username, password, new_auth, disaster_mode) ==
    LET user == get_user_by_email(users_db, username)
        outcome == login_outcome(user, password, new_auth, disaster_mode)
    IN
    /\ UNCHANGED <<users_db, now, registered, loop_vars, runner_vars>>
    /\ IF outcome = "REJECTED_NO_SUCH_USER"
       THEN /\ resp' = Response("login", 401, "Incorrect email or password", "Bearer",
                                EmptyDict, NoToken)
            /\ calls' = <<FindUser(user)>>
            /\ UNCHANGED issued
       ELSE LET user_context == create_user_context(user["id"], user["email"]) IN
            IF outcome = "INJECTED_FAILURE"
            THEN /\ resp' = throw_demo_error("login")
                 /\ calls' = <<FindUser(user)>>
                             \o Variations(user_context, new_auth, disaster_mode)
                             \o throw_demo_error_calls(user_context)
                 /\ UNCHANGED issued
            ELSE IF outcome = "REJECTED_BAD_CREDENTIALS"
            THEN /\ resp' = Response("login", 401, "Incorrect email or password",
                                     "Bearer", EmptyDict, NoToken)
                 /\ calls' = <<FindUser(user)>>
                             \o Variations(user_context, new_auth, disaster_mode)
                             \o <<CheckPassword(password, user)>>
                 /\ UNCHANGED issued
            ELSE LET access_token ==
                         create_access_token([sub |-> user["id"]],
                                             timedelta(30), now)
                 IN /\ access_token \in issued \/ Cardinality(issued) < MaxTokens
                    /\ issued' = issued \cup {access_token}
                    /\ resp' = Response("login", 200, "", "", EmptyDict, access_token)
                    /\ calls' = <<FindUser(user)>>
                                \o Variations(user_context, new_auth, disaster_mode)
                                \o <<CheckPassword(password, user),
                                     Call("create_access_token", user["id"])>>

\* The call of verify_token made by get_current_user_id, with what it returned.
VerifyTokenCall(token) == Invocation("verify_token", "", verify_token(token, now))

\* GET /api/me
GetMe(token) ==
    /\ UNCHANGED <<users_db, now, issued, registered, loop_vars, runner_vars>>
    /\ IF token = NoToken
       THEN /\ resp' = oauth2_scheme("get_me", token)
            /\ calls' = <<Call("oauth2_scheme", "")>>
       ELSE LET dep == get_current_user_id("get_me", token, now) IN
            IF ~dep.ok
            THEN /\ resp' = dep.resp
                 /\ calls' = <<Call("oauth2_scheme", ""), VerifyTokenCall(token)>>
            ELSE /\ calls' = <<Call("oauth2_scheme", ""), VerifyTokenCall(token),
                               Call("get_me", dep.user_id)>>
                 /\ IF ~Contains(users_db, dep.user_id)
                    THEN resp' = Response("get_me", 404, "User not found", "",
                                          EmptyDict, NoToken)
                    ELSE resp' = Response("get_me", 200, "", "",
                                          user_response(dep.user_id,
                                                        Lookup(users_db, dep.user_id)),
                                          NoToken)

\* PATCH /api/me
UpdateMe(token, body) ==
    /\ UNCHANGED <<now, issued, registered, loop_vars, runner_vars>>
    /\ IF token = NoToken
       THEN /\ resp' = oauth2_scheme("update_me", token)
            /\ calls' = <<Call("oauth2_scheme", "")>>
            /\ UNCHANGED users_db
       ELSE LET dep == get_current_user_id("update_me", token, now) IN
            IF ~dep.ok
            THEN /\ resp' = dep.resp
                 /\ calls' = <<Call("oauth2_scheme", ""), VerifyTokenCall(token)>>
                 /\ UNCHANGED users_db
            ELSE LET update_data == UserUpdate_dict(body)
                     updated_user == update_user_result(users_db, dep.user_id, update_data)
                 IN /\ users_db' = update_user(users_db, dep.user_id, update_data)
                    /\ calls' = <<Call("oauth2_scheme", ""), VerifyTokenCall(token),
                                  Call("update_me", dep.user_id),
                                  Call("update_user", dep.user_id)>>
                    /\ IF IsNone(updated_user)
                       THEN resp' = Response("update_me", 404, "User not found", "",
                                             EmptyDict, NoToken)
                       ELSE resp' = Response("update_me", 200, "", "",
                                             user_response(dep.user_id, updated_user),
                                             NoToken)

\* The clock (datetime.utcnow) moves forward.
TickSteps == {ACCESS_TOKEN_EXPIRE_MINUTES, ACCESS_TOKEN_EXPIRE_MINUTES + 1}
Tick(d) ==
    /\ now + d <= MaxTime
    /\ now' = now + d
    /\ UNCHANGED <<users_db, issued, registered, resp, calls, loop_vars, runner_vars>>

Next ==
    \/ \E email \in Emails, password \in Passwords, salt \in RequestSalts,
          new_auth \in BOOLEAN, disaster_mode \in BOOLEAN :
          Signup(email, password, salt, new_auth, disaster_mode)
    \/ \E username \in Emails, password \in Passwords,
          new_auth \in BOOLEAN, disaster_mode \in BOOLEAN :
          Login(username, password, new_auth, disaster_mode)
    \/ \E token \in PresentedTokens \cup {NoToken} : GetMe(token)
    \/ \E token \in PresentedTokens \cup {NoToken}, body \in Bodies : UpdateMe(token, body)
    \/ \E d \in TickSteps : Tick(d)

Spec == Init /\ [][Next]_vars

\* ------------------------------------------ the token service on its own
\* create_access_token and verify_token called directly, with any claims and
\* any expires_delta, and the session dependency applied to any token.
TokenData == {EmptyDict, [sub |-> "u1"], [sub |-> "u2"]}
Deltas == {NoDelta, timedelta(0), timedelta(1), timedelta(ACCESS_TOKEN_EXPIRE_MINUTES),
           timedelta(-1)}

\* The tokens handed to verify_token: the issued ones and, for each, a copy
\* signed with another key, copies with the subject or the expiry altered or
\* the expiry removed after signing, and a string that is no token.
TokenInputs ==
    issued
    \cup {jwt_encode(t.claims, OtherKey) : t \in issued}
    \cup {[t EXCEPT !.claims = [k \in DOMAIN t.claims \cup {"sub"} |->
                                   IF k = "sub" THEN GhostId ELSE t.claims[k]]] :
             t \in issued}
    \cup {[t EXCEPT !.claims = [t.claims EXCEPT !["exp"] = @ + MaxTime]] : t \in issued}
    \cup {[t EXCEPT !.claims = [k \in DOMAIN t.claims \ {"exp"} |-> t.claims[k]]] :
             t \in issued}
    \cup {Garbage}

\* What a direct call returned: the value, the exception that escaped, and the
\* time of the call.
Returned(value, exc) == [value |-> value, exc |-> exc, at |-> now]

IssueCall(data, expires_delta) ==
    LET token == create_access_token(data, expires_delta, now) IN
    /\ token \in issued \/ Cardinality(issued) < MaxTokens
    /\ issued' = issued \cup {token}
    /\ resp' = Response("create_access_token", 0, "", "", Returned("", ""), token)
    /\ calls' = <<Call("create_access_token", "")>>
    /\ UNCHANGED <<users_db, now, registered, loop_vars, runner_vars>>

VerifyCall(token) ==
    LET o == verify_token_outcome(token, now) IN
    /\ resp' = Response("verify_token", 0, "", "", Returned(o.value, o.exc), token)
    /\ calls' = <<Call("verify_token", "")>>
    /\ UNCHANGED <<users_db, now, issued, registered, loop_vars, runner_vars>>

ResolveCall(token) ==
    LET dep == get_current_user_id("get_current_user_id", token, now) IN
    /\ resp' = [dep.resp EXCEPT !.body = Returned(dep.user_id, ""), !.token = token]
    /\ calls' = <<Call("verify_token", "")>>
    /\ UNCHANGED <<users_db, now, issued, registered, loop_vars, runner_vars>>

NextToken ==
    \/ \E data \in TokenData, expires_delta \in Deltas : IssueCall(data, expires_delta)
    \/ \E token \in TokenInputs : VerifyCall(token)
    \/ \E token \in TokenInputs : ResolveCall(token)
    \/ \E d \in TickSteps : Tick(d)

SpecToken == Init /\ [][NextToken]_vars

\* ------------------------------------------------- the store on its own
\* create_user, update_user, get_user_by_email and verify_password called
\* directly: update_user with a dict of no key, of one key or of all keys.
UpdateVals == {None} \cup ProfileVals
UpdateDatas ==
    {[k \in K |-> v] : K \in {S \in SUBSET AllKeys : Cardinality(S) <= 1} \cup {AllKeys},
                       v \in UpdateVals}

CreateCall(email, password, salt) ==
    \E user_id \in Ids :
        /\ ~Contains(users_db, user_id)
        /\ users_db' = create_user(users_db, email, password, salt, user_id)
        /\ resp' = Response("create_user", 0, "", "",
                            WithId(Lookup(users_db', user_id), user_id), NoToken)
        /\ calls' = <<Call("create_user", "")>>
        /\ UNCHANGED <<now, issued, registered, loop_vars, runner_vars>>

UpdateCall(user_id, update_data) ==
    /\ users_db' = update_user(users_db, user_id, update_data)
    /\ resp' = Response("update_user", 0, "", "",
                        update_user_result(users_db, user_id, update_data), NoToken)
    /\ calls' = <<Call("update_user", user_id)>>
    /\ UNCHANGED <<now, issued, registered, loop_vars, runner_vars>>

FindCall(email) ==
    /\ resp' = Response("get_user_by_email", 0, "", "",
                        get_user_by_email(users_db, email), NoToken)
    /\ calls' = <<Call("get_user_by_email", email)>>
    /\ UNCHANGED <<users_db, now, issued, registered, loop_vars, runner_vars>>

VerifyPasswordCall(password, user_id) ==
    /\ Contains(users_db, user_id)
    /\ resp' = Response("verify_password", 0, "", "",
                        [value |-> IF verify_password(password,
                                          Lookup(users_db, user_id)["hashed_password"])
                                   THEN "True" ELSE "False"],
                        NoToken)
    /\ calls' = <<Call("verify_password", password)>>
    /\ UNCHANGED <<users_db, now, issued, registered, loop_vars, runner_vars>>

NextStore ==
    \/ \E email \in Emails, password \in StoredPasswords, salt \in Salts :
          CreateCall(email, password, salt)
    \/ \E user_id \in Ids \cup {GhostId}, update_data \in UpdateDatas :
          UpdateCall(user_id, update_data)
    \/ \E email \in Emails : FindCall(email)
    \/ \E password \in Passwords, user_id \in Ids : VerifyPasswordCall(password, user_id)

SpecStore == Init /\ [][NextStore]_vars

\* --------------------------------------- concurrent signups on the event loop
\* Each request is a coroutine of the one event loop.  A coroutine that has
\* the loop keeps it until it awaits or returns; signup is an async def whose
\* body holds no await, so SignupAwaits, the positions at which it yields the
\* loop before returning, is empty.
SignupAwaits_afterCheck == {"checked"}

SignupAwaits == {}

Holds(r) == loop \in {0, r}
Yield(r, pc) == IF pc \in SignupAwaits \cup {"done"} THEN 0 ELSE r

\* The server accepts a signup request and creates its coroutine.
Accept(r, email, password) ==
    /\ tasks[r].pc = "idle"
    /\ tasks' = [tasks EXCEPT ![r] = [pc |-> "accepted", email |-> email,
                                      password |-> password, status |-> 0]]
    /\ UNCHANGED <<users_db, now, issued, registered, resp, calls, loop, runner_vars>>

\* signup, the existence check.
SignupCheck(r) ==
    LET existing_user == get_user_by_email(users_db, tasks[r].email)
        pc == IF ~IsNone(existing_user) THEN "done" ELSE "checked"
    IN /\ tasks[r].pc = "accepted"
       /\ Holds(r)
       /\ tasks' = [tasks EXCEPT ![r].pc = pc,
                                 ![r].status = IF pc = "done" THEN 400 ELSE 0]
       /\ loop' = Yield(r, pc)
       /\ UNCHANGED <<users_db, now, issued, registered, resp, calls, runner_vars>>

\* signup, the two flag evaluations and throw_demo_error.
SignupFlags(r, new_auth, disaster_mode) ==
    LET pc == IF new_auth \/ disaster_mode THEN "done" ELSE "cleared"
    IN /\ tasks[r].pc = "checked"
       /\ Holds(r)
       /\ tasks' = [tasks EXCEPT ![r].pc = pc,
                                 ![r].status = IF pc = "done" THEN 500 ELSE 0]
       /\ loop' = Yield(r, pc)
       /\ UNCHANGED <<users_db, now, issued, registered, resp, calls, runner_vars>>

\* signup, create_user and the response.
SignupInsert(r, salt) ==
    \E user_id \in Ids :
        /\ tasks[r].pc = "cleared"
        /\ Holds(r)
        /\ ~Contains(users_db, user_id)
        /\ users_db' = create_user(users_db, tasks[r].email, tasks[r].password,
                                   salt, user_id)
        /\ registered' = registered \cup
               {[email |-> tasks[r].email, password |-> tasks[r].password,
                 id |-> user_id]}
        /\ tasks' = [tasks EXCEPT ![r].pc = "done", ![r].status = 200]
        /\ loop' = Yield(r, "done")
        /\ UNCHANGED <<now, issued, resp, calls, runner_vars>>

NextLoop ==
    \/ \E r \in TaskIds, email \in Emails, password \in Passwords :
          Accept(r, email, password)
    \/ \E r \in TaskIds : SignupCheck(r)
    \/ \E r \in TaskIds, new_auth \in BOOLEAN, disaster_mode \in BOOLEAN :
          SignupFlags(r, new_auth, disaster_mode)
    \/ \E r \in TaskIds, salt \in Salts : SignupInsert(r, salt)

SpecLoop == Init /\ [][NextLoop]_vars

\* ------------------------------------------------- test-runner-api/main.py
\* The test ids uuid4 draws, and one that was never drawn.
TestIds == {"t1", "t2"}
UnknownTestId == "t0"
LogoUrls == {"", "logo.png"}
PrimaryColors == {"#fff"}
Stdouts == {"1 passed"}
Stderrs == {"", "boom"}

\* d[k] = v on a Python dict.
DictPut(d, k, v) == [x \in (DOMAIN d) \cup {k} |-> IF x = k THEN v ELSE d[x]]

\* What the awaited subprocess calls give: create_subprocess_exec a process,
\* FileNotFoundError or another exception; communicate and the decoding an
\* exit code or an exception.
SpawnResults == {"process", "FileNotFoundError", "Exception"}
FinishResults == {"exit0", "exit1", "Exception"}

\* run_playwright_test without the except clauses: an exception ends the task
\* and the entry stays as it was.
finished_entry_noexcept(entry, result, stdout, stderr) ==
    IF result = "exit0"
    THEN DictPut(DictPut(entry, "status", "success"), "output", stdout)
    ELSE IF result = "exit1"
    THEN DictPut(DictPut(DictPut(entry, "status", "error"), "error",
                         IF stderr # "" THEN stderr
                         ELSE "Test failed with non-zero exit code."),
                 "output", stdout)
    ELSE entry

\* run_playwright_test storing stderr in the error field after exit code 0 too.
finished_entry_stderr(entry, result, stdout, stderr) ==
    IF result = "exit0"
    THEN DictPut(DictPut(DictPut(entry, "status", "success"), "error", stderr),
                 "output", stdout)
    ELSE IF result = "exit1"
    THEN DictPut(DictPut(DictPut(entry, "status", "error"), "error",
                         IF stderr # "" THEN stderr
                         ELSE "Test failed with non-zero exit code."),
                 "output", stdout)
    ELSE IF result = "FileNotFoundError"
    THEN DictPut(DictPut(entry, "status", "error"), "error",
                 "Failed to start test runner (npx not found).")
    ELSE DictPut(DictPut(entry, "status", "error"), "error",
                 "An unexpected error occurred: " \o stderr)

\* run_playwright_test, lines 80 to 98: the entry after the subprocess call
\* ended with result; for an exception, stderr stands for its message.
finished_entry(entry, result, stdout, stderr) ==
    IF result = "exit0"
    THEN DictPut(DictPut(entry, "status", "success"), "output", stdout)
    ELSE IF result = "exit1"
    THEN DictPut(DictPut(DictPut(entry, "status", "error"), "error",
                         IF stderr # "" THEN stderr
                         ELSE "Test failed with non-zero exit code."),
                 "output", stdout)
    ELSE IF result = "FileNotFoundError"
    THEN DictPut(DictPut(entry, "status", "error"), "error",
                 "Failed to start test runner (npx not found).")
    ELSE DictPut(DictPut(entry, "status", "error"), "error",
                 "An unexpected error occurred: " \o stderr)

Run(pc, logo_url, primary_color, result) ==
    [pc |-> pc, logo_url |-> logo_url, primary_color |-> primary_color,
     result |-> result]

\* POST /api/run-e2e-test
TriggerE2eTest(logo_url, primary_color) ==
    \E test_id \in TestIds :
        /\ test_id \notin DOMAIN TEST_STATUSES
        /\ TEST_STATUSES' = DictPut(TEST_STATUSES, test_id, [status |-> "pending"])
        /\ runs' = DictPut(runs, test_id,
                           Run("scheduled", logo_url, primary_color, ""))
        /\ resp' = Response("trigger_e2e_test", 200, "", "",
                            [test_id |-> test_id, status |-> "pending"], NoToken)
        /\ calls' = <<Call("trigger_e2e_test", test_id)>>
        /\ UNCHANGED <<users_db, now, issued, registered, loop_vars>>

\* run_playwright_test from its start to the first await.
RunStart(test_id) ==
    /\ test_id \in DOMAIN runs
    /\ runs[test_id].pc = "scheduled"
    /\ TEST_STATUSES' = [TEST_STATUSES EXCEPT
                            ![test_id] = DictPut(@, "status", "running")]
    /\ runs' = [runs EXCEPT ![test_id].pc = "create_subprocess_exec"]
    /\ UNCHANGED <<users_db, now, issued, registered, resp, calls, loop_vars>>

\* await asyncio.create_subprocess_exec(...) gives a process or raises.
RunSpawned(test_id, result, message) ==
    /\ test_id \in DOMAIN runs
    /\ runs[test_id].pc = "create_subprocess_exec"
    /\ IF result = "process"
       THEN /\ runs' = [runs EXCEPT ![test_id].pc = "communicate"]
            /\ UNCHANGED TEST_STATUSES
       ELSE /\ runs' = [runs EXCEPT ![test_id].pc = "done",
                                    ![test_id].result = result]
            /\ TEST_STATUSES' = [TEST_STATUSES EXCEPT
                                    ![test_id] = finished_entry(@, result, "", message)]
    /\ UNCHANGED <<users_db, now, issued, registered, resp, calls, loop_vars>>

\* await process.communicate() and the decoding give an exit code or raise.
RunFinished(test_id, result, stdout, stderr) ==
    /\ test_id \in DOMAIN runs
    /\ runs[test_id].pc = "communicate"
    /\ runs' = [runs EXCEPT ![test_id].pc = "done", ![test_id].result = result]
    /\ TEST_STATUSES' = [TEST_STATUSES EXCEPT
                            ![test_id] = finished_entry(@, result, stdout, stderr)]
    /\ UNCHANGED <<users_db, now, issued, registered, resp, calls, loop_vars>>

\* GET /api/test-status/{test_id}
GetTestStatus(test_id) ==
    /\ calls' = <<Call("get_test_status", test_id)>>
    /\ IF test_id \notin DOMAIN TEST_STATUSES
       THEN resp' = Response("get_test_status", 404, "Test ID not found", "",
                             EmptyDict, NoToken)
       ELSE LET status_data == TEST_STATUSES[test_id] IN
            resp' = Response("get_test_status", 200, "", "",
                             [test_id |-> test_id,
                              status |-> IF "status" \in DOMAIN status_data
                                         THEN status_data["status"] ELSE "unknown",
                              error |-> DictGet(status_data, "error"),
                              output |-> DictGet(status_data, "output")],
                             NoToken)
    /\ UNCHANGED <<users_db, now, issued, registered, loop_vars, runner_vars>>

NextRunner ==
    \/ \E logo_url \in LogoUrls, primary_color \in PrimaryColors :
          TriggerE2eTest(logo_url, primary_color)
    \/ \E test_id \in TestIds : RunStart(test_id)
    \/ \E test_id \in TestIds, result \in SpawnResults, message \in Stderrs :
          RunSpawned(test_id, result, message)
    \/ \E test_id \in TestIds, result \in FinishResults,
          stdout \in Stdouts, stderr \in Stderrs :
          RunFinished(test_id, result, stdout, stderr)
    \/ \E test_id \in TestIds \cup {UnknownTestId} : GetTestStatus(test_id)

SpecRunner == Init /\ [][NextRunner]_vars

\* The background task of every triggered run is started by the event loop,
\* and each subprocess call it awaits returns or raises.
RunnerFairness ==
    \A test_id \in TestIds :
        /\ WF_vars(RunStart(test_id))
        /\ WF_vars(\E result \in SpawnResults, message \in Stderrs :
                      RunSpawned(test_id, result, message))
        /\ WF_vars(\E result \in FinishResults, stdout \in Stdouts,
                      stderr \in Stderrs :
                      RunFinished(test_id, result, stdout, stderr))

SpecRunnerFair == Init /\ [][NextRunner]_vars /\ RunnerFairness

\* ------------------------------------------------------------ properties
HasExp(token) == "exp" \in DOMAIN token.claims
HasSub(token) == "sub" \in DOMAIN token.claims
SignedByServer(token) == token.sig = Sign(token.claims, SECRET_KEY)

\* C1: a login made with both flags false and with the credentials of a signup
\* that returned a user returns 200 with a token, and verifying that token
\* gives the id the signup returned.
C1_SignupThenLogin ==
    [][\A r \in registered :
          (resp'.op = "login" /\ Login(r.email, r.password, FALSE, FALSE))
          => /\ resp'.status = 200
             /\ resp'.token # NoToken
             /\ verify_token(resp'.token, now') = r.id]_vars

C1_Witness ==
    /\ resp.op = "login"
    /\ resp.status = 200
    /\ \E r \in registered : verify_token(resp.token, now) = r.id
    /\ Len(users_db) = 2

\* C2: a token created from a subject id and a positive lifetime verifies, at
\* the instant it is created, to that subject id.
C2_RoundTrip ==
    [][\A data \in TokenData, expires_delta \in Deltas :
          (/\ "sub" \in DOMAIN data
           /\ expires_delta.set /\ expires_delta.minutes > 0
           /\ IssueCall(data, expires_delta))
          => verify_token(resp'.token, now') = data["sub"]]_vars

C2_Witness ==
    /\ resp.op = "verify_token"
    /\ resp.token \in issued
    /\ now > 0
    /\ resp.body.at = now
    /\ resp.token.claims["exp"] = now + 1
    /\ resp.body.value = "u1"

\* C3: at every time after a token's expiry, verify_token returns None for it,
\* whether its signature is valid or not; this holds in every later state.
C3_ExpiredIsNone ==
    /\ \A t \in TokenInputs :
          (HasExp(t) /\ now > t.claims["exp"]) => verify_token(t, now) = None
    /\ (/\ resp.op = "verify_token"
        /\ HasExp(resp.token)
        /\ resp.body.at > resp.token.claims["exp"])
       => (resp.body.value = None /\ resp.body.exc = "")

C3_Witness ==
    /\ resp.op = "verify_token"
    /\ resp.token \in issued
    /\ HasSub(resp.token)
    /\ resp.body.at > resp.token.claims["exp"]
    /\ resp.body.value = None

\* C4: verify_token returns None for every token signed with a key other than
\* SECRET_KEY and for every token whose claims differ from the signed ones.
C4_ForgedIsNone ==
    /\ \A t \in TokenInputs :
          (t.fmt = "jwt" /\ (t.sig.key # SECRET_KEY \/ t.sig.claims # t.claims))
          => verify_token(t, now) = None
    /\ (/\ resp.op = "verify_token"
        /\ resp.token.fmt = "jwt"
        /\ (resp.token.sig.key # SECRET_KEY \/ resp.token.sig.claims # resp.token.claims))
       => (resp.body.value = None /\ resp.body.exc = "")

C4_Witness ==
    /\ resp.op = "verify_token"
    /\ resp.token.fmt = "jwt"
    /\ resp.token.sig.key = SECRET_KEY
    /\ resp.token.sig.claims # resp.token.claims
    /\ HasSub(resp.token) /\ HasExp(resp.token)
    /\ resp.body.at <= resp.token.claims["exp"]
    /\ resp.body.at <= resp.token.sig.claims["exp"]
    /\ resp.body.value = None

Invoked(cs, fn) == \E i \in 1..Len(cs) : cs[i].fn = fn
Hashes == {users_db[i].rec["hashed_password"] : i \in 1..Len(users_db)}

\* C5: update_user on an existing id leaves every other entry, the entry's id,
\* its email and its hashed_password as they were, also when the dict carries
\* the keys id, email or hashed_password, and a dict {fullName: X} changes the
\* fullName of that record and nothing else.
C5_UpdateFrame ==
    [][\A user_id \in Ids, update_data \in UpdateDatas :
          (/\ resp'.op = "update_user"
           /\ calls'[1].arg = user_id
           /\ Contains(users_db, user_id)
           /\ UpdateCall(user_id, update_data))
          => LET i == IndexOf(users_db, user_id)
                 old == users_db[i].rec
                 new == users_db'[i].rec
             IN /\ Len(users_db') = Len(users_db)
                /\ \A j \in 1..Len(users_db) :
                      /\ users_db'[j].id = users_db[j].id
                      /\ j # i => users_db'[j] = users_db[j]
                /\ new["email"] = old["email"]
                /\ new["hashed_password"] = old["hashed_password"]
                /\ "id" \notin DOMAIN new
                /\ (DOMAIN update_data = {"fullName"} /\ update_data["fullName"] # None)
                   => new = [old EXCEPT !["fullName"] = update_data["fullName"]]]_vars

C5_Witness ==
    /\ resp.op = "update_user"
    /\ Len(users_db) = 2
    /\ ~IsNone(resp.body)
    /\ resp.body["id"] = users_db[2].id
    /\ resp.body["fullName"] = "X"
    /\ users_db[2].rec["fullName"] = "X"
    /\ users_db[1].rec["fullName"] = None

\* C6: a login for an email that has a record, with release-new-auth or
\* enable-disaster-mode true, ends with the 500 of throw_demo_error, without
\* verify_password having been called and without a token, whatever the password.
FlagTrue(cs) == \E i \in 1..Len(cs) :
    /\ cs[i].fn \in {"variation:release-new-auth", "variation:enable-disaster-mode"}
    /\ cs[i].ret = "True"

C6_FaultBeforePassword ==
    [][(resp'.op = "login" /\ FlagTrue(calls'))
       => /\ resp'.status = 500
          /\ resp'.token = NoToken
          /\ issued' = issued
          /\ Invoked(calls', "track:http.500")
          /\ ~Invoked(calls', "verify_password")
          /\ ~Invoked(calls', "create_access_token")]_vars

C6_Witness ==
    /\ resp.op = "login"
    /\ resp.status = 500
    /\ calls[2].ret = "False" /\ calls[3].ret = "True"
    /\ Invoked(calls, "track:http.500")
    /\ ~Invoked(calls, "verify_password")

\* C7: no two entries of users_db have the same email.
C7_EmailUnique ==
    \A i \in 1..Len(users_db), j \in 1..Len(users_db) :
        i # j => users_db[i].rec["email"] # users_db[j].rec["email"]

C7_Witness ==
    /\ Len(users_db) = 2
    /\ resp.op = "signup"
    /\ resp.status = 400

\* C8: when no bearer token is presented or verify_token returns None for it,
\* GET /api/me and PATCH /api/me end with 401 and WWW-Authenticate: Bearer, the
\* handler body does not run and users_db is unchanged; the handler body runs
\* only after verify_token returned a subject id.
VerifiedSubject(cs) == \E i \in 1..Len(cs) :
    cs[i].fn = "verify_token" /\ cs[i].ret # None

C8_SessionGate ==
    [][resp'.op \in {"get_me", "update_me"}
       => IF VerifiedSubject(calls')
          THEN resp'.status # 401
          ELSE /\ resp'.status = 401
               /\ resp'.challenge = "Bearer"
               /\ users_db' = users_db
               /\ ~Invoked(calls', "get_me")
               /\ ~Invoked(calls', "update_me")
               /\ ~Invoked(calls', "update_user")]_vars

C8_Witness ==
    /\ resp.op = "update_me"
    /\ resp.status = 401
    /\ resp.detail = "Invalid authentication credentials"
    /\ Invoked(calls, "verify_token")
    /\ ~VerifiedSubject(calls)
    /\ Len(users_db) >= 1
    /\ issued # {}

\* C9: no response carries a hashed_password, as a key or as a value.
C9_NoHashInResponse ==
    /\ "hashed_password" \notin DOMAIN resp.body
    /\ \A k \in DOMAIN resp.body : resp.body[k] \notin Hashes
    /\ resp.detail \notin Hashes
    /\ HasSub(resp.token) => resp.token.claims["sub"] \notin Hashes

C9_Witness ==
    /\ resp.op = "get_me"
    /\ resp.status = 200
    /\ resp.body["fullName"] = "X"
    /\ Hashes # {}

\* C10: for a token that is malformed, badly signed, expired or without sub,
\* verify_token returns None without raising, and get_current_user_id answers
\* with one and the same 401 whatever the cause.
Invalid(token, t) ==
    \/ token.fmt # "jwt"
    \/ ~SignedByServer(token)
    \/ HasExp(token) /\ token.claims["exp"] < t
    \/ ~HasSub(token)

C10_FailuresNormalized ==
    /\ (resp.op = "verify_token" /\ Invalid(resp.token, resp.body.at))
       => (resp.body.value = None /\ resp.body.exc = "")
    /\ (resp.op = "get_current_user_id" /\ Invalid(resp.token, resp.body.at))
       => /\ resp.status = 401
          /\ resp.detail = "Invalid authentication credentials"
          /\ resp.challenge = "Bearer"
          /\ resp.body.value = None

C10_Witness ==
    /\ resp.op = "get_current_user_id"
    /\ resp.status = 401
    /\ resp.token.fmt = "jwt"
    /\ SignedByServer(resp.token)
    /\ ~HasSub(resp.token)
    /\ resp.body.at <= resp.token.claims["exp"]

\* C11 as stated: while one signup is between its existence check and its
\* insert, a second accepted signup for the same email can run its existence
\* check, so that both pass it and both insert.
C11_BothPassCheck ==
    \A a \in TaskIds, b \in TaskIds :
        (/\ a # b
         /\ tasks[a].pc \in {"checked", "cleared"}
         /\ tasks[b].pc = "accepted"
         /\ tasks[b].email = tasks[a].email)
        => ENABLED (SignupCheck(b) /\ tasks'[b].pc = "checked")

\* C11 amended: of two signups for the same unregistered email handled
\* concurrently, at most one is between its existence check and its insert at
\* any time, at most one ends with 200, and no two entries share an email.
InHandler(r) == tasks[r].pc \in {"checked", "cleared"}

C11_SignupsSerialized ==
    /\ \A a \in TaskIds, b \in TaskIds : (InHandler(a) /\ InHandler(b)) => a = b
    /\ \A a \in TaskIds, b \in TaskIds :
          (/\ a # b
           /\ tasks[a].email = tasks[b].email
           /\ tasks[a].status = 200)
          => tasks[b].status # 200
    /\ \A i \in 1..Len(users_db), j \in 1..Len(users_db) :
          i # j => users_db[i].rec["email"] # users_db[j].rec["email"]

C11_Witness ==
    /\ tasks[1].pc = "done" /\ tasks[2].pc = "done"
    /\ tasks[1].email = tasks[2].email
    /\ tasks[1].status = 400
    /\ tasks[2].status = 200
    /\ Len(users_db) = 1

\* C12: every login ends in exactly one of four ways, told apart by the calls
\* the handler made, in order.  The lookup comes first: when it finds no record
\* the handler ends with 401 and has evaluated no flag and emitted no track
\* event.  The flags come second: a true flag ends with the 500.  The password
\* comes third: a mismatch ends with 401, and a token is issued only after
\* verify_password returned True with both flags false.
Fns(cs) == [i \in 1..Len(cs) |-> cs[i].fn]
LoginPrefix == <<"get_user_by_email", "variation:release-new-auth",
                 "variation:enable-disaster-mode">>
PasswordMatched(cs) == \E i \in 1..Len(cs) :
    cs[i].fn = "verify_password" /\ cs[i].ret = "True"

login_state(cs) ==
    IF Fns(cs) = <<"get_user_by_email">> /\ cs[1].ret = None
    THEN "REJECTED_NO_SUCH_USER"
    ELSE IF Fns(cs) = LoginPrefix \o <<"track:http.500">>
            /\ cs[1].ret # None /\ FlagTrue(cs)
    THEN "INJECTED_FAILURE"
    ELSE IF Fns(cs) = LoginPrefix \o <<"verify_password">>
            /\ cs[1].ret # None /\ ~FlagTrue(cs) /\ ~PasswordMatched(cs)
    THEN "REJECTED_BAD_CREDENTIALS"
    ELSE IF Fns(cs) = LoginPrefix \o <<"verify_password", "create_access_token">>
            /\ cs[1].ret # None /\ ~FlagTrue(cs) /\ PasswordMatched(cs)
    THEN "TOKEN_ISSUED"
    ELSE "NONE"

C12_LoginStateMachine ==
    resp.op = "login" =>
        /\ login_state(calls) # "NONE"
        /\ login_state(calls) \in {"REJECTED_NO_SUCH_USER", "REJECTED_BAD_CREDENTIALS"}
              => /\ resp.status = 401
                 /\ resp.detail = "Incorrect email or password"
                 /\ resp.token = NoToken
        /\ login_state(calls) = "INJECTED_FAILURE"
              => resp.status = 500 /\ resp.token = NoToken
        /\ login_state(calls) = "TOKEN_ISSUED"
              => resp.status = 200 /\ resp.token \in issued

C12_Witness ==
    /\ resp.op = "login"
    /\ login_state(calls) = "REJECTED_NO_SUCH_USER"
    /\ resp.status = 401
    /\ Len(users_db) = 1
    /\ issued # {}

\* C13: a signup or login in which a flag evaluated true ends with the 500,
\* and the last call it made before that is the track event, with the context
\* the two flags were evaluated with: the anonymous context on signup, the
\* context of the user's id on login.  A signup or login whose two flags
\* evaluated false made no track call, and every 500 was preceded by one.
IsVariation(c) ==
    c.fn \in {"variation:release-new-auth", "variation:enable-disaster-mode"}
FlagContexts(cs) == {cs[i].arg : i \in {j \in 1..Len(cs) : IsVariation(cs[j])}}
StoredIds == {users_db[i].id : i \in 1..Len(users_db)}

C13_TrackBeforeFailure ==
    resp.op \in {"signup", "login"} =>
        /\ FlagTrue(calls)
              => /\ resp.status = 500
                 /\ calls[Len(calls)].fn = "track:http.500"
                 /\ FlagContexts(calls) = {calls[Len(calls)].arg}
                 /\ \A i \in 1..(Len(calls) - 1) : calls[i].fn # "track:http.500"
                 /\ resp.op = "signup" => calls[Len(calls)].arg = get_anonymous_context
                 /\ resp.op = "login" => calls[Len(calls)].arg \in StoredIds
        /\ ~FlagTrue(calls) => ~Invoked(calls, "track:http.500")
        /\ resp.status = 500 => FlagTrue(calls)

C13_Witness ==
    /\ resp.op = "login"
    /\ resp.status = 500
    /\ Len(users_db) = 2
    /\ calls[Len(calls)].fn = "track:http.500"
    /\ calls[Len(calls)].arg = users_db[2].id
    /\ calls[2].arg = users_db[2].id

\* C14: a token that login issues expires exactly 30 minutes after the time
\* of the login, it is the token that create_access_token gives for the same
\* subject when no expires_delta is passed, and no issued token ever has more
\* than 30 minutes left.
C14_FixedLifetime ==
    [][/\ \A t \in issued' \ issued :
             /\ t.claims["exp"] = now + 30
             /\ t = create_access_token([sub |-> t.claims["sub"]], NoDelta, now)
       /\ (resp'.op = "login" /\ resp'.status = 200 /\ now' = now)
             => /\ resp'.token.claims["exp"] = now + 30
                /\ resp'.token = create_access_token(
                                     [sub |-> resp'.token.claims["sub"]], NoDelta, now)
       /\ \A t \in issued' : t.claims["exp"] <= now' + 30]_vars

C14_Witness ==
    /\ resp.op = "login"
    /\ resp.status = 200
    /\ now = 31
    /\ resp.token.claims["exp"] = 61
    /\ Cardinality(issued) = 2

\* C15: a token that login issued verifies to the id it was issued for in
\* every later state whose time is not past its expiry, whatever signups,
\* logins and profile updates were handled since, and GET /api/me and
\* PATCH /api/me accept it.
C15_NoRevocation ==
    \A t \in issued :
        now <= t.claims["exp"] =>
            /\ verify_token(t, now) = t.claims["sub"]
            /\ \E r \in registered : r.id = t.claims["sub"]
            /\ get_current_user_id("get_me", t, now).ok
            /\ get_current_user_id("get_me", t, now).user_id = t.claims["sub"]

C15_Witness ==
    /\ Cardinality(issued) = 2
    /\ \E t \in issued, o \in issued :
          /\ t.claims["sub"] = o.claims["sub"]
          /\ t.claims["exp"] = now
          /\ o.claims["exp"] > now
          /\ verify_token(t, now) = t.claims["sub"]
    /\ Len(users_db) = 2
    /\ resp.op = "update_me"
    /\ resp.status = 200
    /\ resp.body["fullName"] = "X"

\* C16: a record that exists before a request exists after it, under the same
\* id, with the same email and the same password hash; the collection gains a
\* record only in a signup that returns the new user, and then exactly one.
C16_RecordLifecycle ==
    [][/\ \A i \in 1..Len(users_db) :
             /\ Contains(users_db', users_db[i].id)
             /\ Lookup(users_db', users_db[i].id)["email"] = users_db[i].rec["email"]
             /\ Lookup(users_db', users_db[i].id)["hashed_password"]
                   = users_db[i].rec["hashed_password"]
       /\ Len(users_db') >= Len(users_db)
       /\ Len(users_db') # Len(users_db)
             => /\ Len(users_db') = Len(users_db) + 1
                /\ resp'.op = "signup"
                /\ resp'.status = 200
                /\ Invoked(calls', "create_user")
                /\ resp'.body["id"] = users_db'[Len(users_db')].id]_vars

C16_Witness ==
    /\ Len(users_db) = 2
    /\ users_db[1].rec["fullName"] = "X"
    /\ users_db[1].rec["email"] \in Emails
    /\ verify_password("pw123", users_db[1].rec["hashed_password"])
    /\ resp.op = "signup"
    /\ resp.status = 200
    /\ resp.body["id"] = users_db[2].id

\* C17: update_user with an id that is not in users_db returns None and leaves
\* users_db as it is; GET /api/me and PATCH /api/me whose token verified to an
\* id that is not in users_db end with 404 and change nothing, and with an id
\* that is in users_db they do not end with 404.
HandlerRan(cs) == Invoked(cs, "get_me") \/ Invoked(cs, "update_me")
HandlerSubject(cs) ==
    cs[CHOOSE i \in 1..Len(cs) : cs[i].fn \in {"get_me", "update_me"}].arg

C17_UnknownIdNotFound ==
    [][(resp'.op \in {"get_me", "update_me"} /\ HandlerRan(calls'))
       => IF Contains(users_db, HandlerSubject(calls'))
          THEN resp'.status = 200
          ELSE /\ resp'.status = 404
               /\ resp'.detail = "User not found"
               /\ IsNone(resp'.body)
               /\ users_db' = users_db
               /\ \A body \in Bodies :
                     LET update_data == UserUpdate_dict(body)
                         user_id == HandlerSubject(calls')
                     IN /\ IsNone(update_user_result(users_db, user_id, update_data))
                        /\ update_user(users_db, user_id, update_data) = users_db]_vars

C17_Witness ==
    /\ resp.op = "update_me"
    /\ resp.status = 404
    /\ Len(calls) = 4
    /\ calls[4].fn = "update_user"
    /\ calls[4].arg = GhostId
    /\ Len(users_db) = 2

\* C18: update_user stores the profile fields that update_data carries with a
\* value other than None and no other: a profile field that update_data does
\* not carry, or carries as None, keeps its stored value, so a field that holds
\* a value never goes back to None.  The dicts PATCH /api/me hands to
\* update_user are among the ones covered.
C18_NullKeepsValue ==
    [][(resp'.op = "update_user" /\ Contains(users_db, calls'[1].arg))
       => LET user_id == calls'[1].arg
              old == Lookup(users_db, user_id)
              new == Lookup(users_db', user_id)
          IN /\ \A k \in UserUpdateFields :
                   /\ old[k] # None => new[k] # None
                   /\ resp'.body[k] = new[k]
             /\ \A update_data \in UpdateDatas :
                   users_db' = update_user(users_db, user_id, update_data)
                   => \A k \in UserUpdateFields :
                         IF k \in DOMAIN update_data /\ DictGet(update_data, k) # None
                         THEN new[k] = update_data[k]
                         ELSE new[k] = old[k]
             /\ \A body \in Bodies : UserUpdate_dict(body) \in UpdateDatas]_vars

C18_Witness ==
    /\ resp.op = "update_user"
    /\ Len(users_db) = 2
    /\ ~IsNone(resp.body)
    /\ resp.body["id"] = users_db[1].id
    /\ resp.body["fullName"] = "X"
    /\ resp.body["username"] = None
    /\ users_db[1].rec["fullName"] = "X"
    /\ users_db[2].rec["website"] = "X"

\* C19: a signup that ends with 400 or with 500 leaves users_db as it was and
\* has not called create_user; the 400 is the answer to an email that has a
\* record and the 500 to a true flag.  Any other signup ends with 200, returns
\* the new user and adds exactly that record after the existing ones.
C19_FailedSignupNoRecord ==
    [][(resp'.op = "signup" /\ now' = now)
       => \/ /\ resp'.status = 400
             /\ calls'[1].ret # None
             /\ users_db' = users_db
             /\ ~Invoked(calls', "create_user")
          \/ /\ resp'.status = 500
             /\ calls'[1].ret = None
             /\ FlagTrue(calls')
             /\ users_db' = users_db
             /\ ~Invoked(calls', "create_user")
          \/ /\ resp'.status = 200
             /\ calls'[1].ret = None
             /\ ~FlagTrue(calls')
             /\ Invoked(calls', "create_user")
             /\ Len(users_db') = Len(users_db) + 1
             /\ SubSeq(users_db', 1, Len(users_db)) = users_db
             /\ users_db'[Len(users_db')].id = resp'.body["id"]
             /\ users_db'[Len(users_db')].rec["email"] = resp'.body["email"]]_vars

C19_Witness ==
    /\ resp.op = "signup"
    /\ resp.status = 500
    /\ Len(users_db) = 1
    /\ users_db[1].rec["fullName"] = "X"
    /\ calls[1].ret = None
    /\ FlagTrue(calls)

\* C20: the subject of every token login returned is the id of a record, the
\* one of the user who logged in; while the token has not expired, GET /api/me
\* and PATCH /api/me with it get past the session check and find the record,
\* so a 404 is never the answer to such a token, and a GET /api/me that ends
\* with 200 returns the id and the email of the record of the token's subject.
C20_LoginTokenFindsUser ==
    /\ \A t \in issued :
          /\ Contains(users_db, t.claims["sub"])
          /\ now <= t.claims["exp"] =>
                LET dep == get_current_user_id("get_me", t, now) IN
                /\ dep.ok
                /\ Contains(users_db, dep.user_id)
                /\ \E r \in registered :
                      /\ r.id = dep.user_id
                      /\ r.email = user_response(dep.user_id,
                                                 Lookup(users_db, dep.user_id))["email"]
                /\ \A body \in Bodies :
                      ~IsNone(update_user_result(users_db, dep.user_id,
                                                 UserUpdate_dict(body)))
    /\ (resp.op \in {"get_me", "update_me"} /\ resp.status = 404)
          => \A t \in issued : t.claims["sub"] # HandlerSubject(calls)
    /\ (resp.op = "get_me" /\ resp.status = 200)
          => /\ resp.body["id"] = HandlerSubject(calls)
             /\ resp.body["email"] = Lookup(users_db, HandlerSubject(calls))["email"]
             /\ \E r \in registered :
                   r.id = resp.body["id"] /\ r.email = resp.body["email"]

C20_Witness ==
    /\ resp.op = "get_me"
    /\ resp.status = 200
    /\ Len(users_db) = 2
    /\ resp.body["id"] = users_db[2].id
    /\ resp.body["fullName"] = "X"
    /\ \E t \in issued : t.claims["sub"] = users_db[2].id /\ t.claims["exp"] = now
    /\ \A t \in issued : t.claims["sub"] = users_db[2].id => t.claims["exp"] = now

\* C21: an entry of TEST_STATUSES is created by trigger_e2e_test as
\* {status: pending} and is never removed; its status moves from pending to
\* running and from running to success or error and in no other way, and an
\* entry with status success or error never changes again; an entry has an
\* error field only when its status is error; a step of one run changes the
\* entry of its own test id and no other; a status query changes no entry and
\* ends with 404 exactly when the id has no entry.
Entries == DOMAIN TEST_STATUSES
Terminal == {"success", "error"}
StatusMove(old, new) ==
    \/ old = "pending" /\ new = "running"
    \/ old = "running" /\ new \in Terminal

C21_StatusLifecycle ==
    [][/\ \A id \in Entries :
             /\ id \in DOMAIN TEST_STATUSES'
             /\ TEST_STATUSES'[id]["status"] # TEST_STATUSES[id]["status"]
                   => StatusMove(TEST_STATUSES[id]["status"], TEST_STATUSES'[id]["status"])
             /\ TEST_STATUSES[id]["status"] \in Terminal
                   => TEST_STATUSES'[id] = TEST_STATUSES[id]
             /\ TEST_STATUSES'[id] # TEST_STATUSES[id]
                   => /\ runs'[id] # runs[id]
                      /\ resp' = resp
                      /\ \A other \in Entries \ {id} :
                            /\ TEST_STATUSES'[other] = TEST_STATUSES[other]
                            /\ runs'[other] = runs[other]
       /\ \A id \in DOMAIN TEST_STATUSES' :
             /\ TEST_STATUSES'[id]["status"] \in {"pending", "running"} \cup Terminal
             /\ "error" \in DOMAIN TEST_STATUSES'[id]
                   => TEST_STATUSES'[id]["status"] = "error"
             /\ id \notin Entries
                   => /\ TEST_STATUSES'[id] = [status |-> "pending"]
                      /\ resp'.op = "trigger_e2e_test"
                      /\ resp'.body["test_id"] = id
                      /\ \A other \in Entries :
                            TEST_STATUSES'[other] = TEST_STATUSES[other]
       /\ (resp'.op = "get_test_status" /\ <<resp, calls>>' # <<resp, calls>>)
             => /\ TEST_STATUSES' = TEST_STATUSES
                /\ runs' = runs
                /\ IF calls'[1].arg \in Entries
                   THEN /\ resp'.status = 200
                        /\ resp'.body["test_id"] = calls'[1].arg
                        /\ resp'.body["status"] = TEST_STATUSES[calls'[1].arg]["status"]
                        /\ resp'.body["error"] # None
                              => resp'.body["status"] = "error"
                   ELSE /\ resp'.status = 404
                        /\ resp'.detail = "Test ID not found"]_vars

C21_Witness ==
    /\ Entries = TestIds
    /\ TEST_STATUSES["t1"]["status"] = "running"
    /\ runs["t1"].pc = "communicate"
    /\ TEST_STATUSES["t2"]["status"] = "error"
    /\ TEST_STATUSES["t2"]["error"] = "boom"
    /\ resp.op = "get_test_status"
    /\ resp.status = 404
    /\ calls[1].arg = UnknownTestId

\* C22: every triggered run reaches status success or error: a run whose
\* subprocess ended with exit code 0 has status success, a run whose subprocess
\* ended with another exit code, could not be started or raised any other
\* exception has status error with its error field set, and no run whose task
\* has ended is left pending or running.
RunEnded(id) == id \in DOMAIN runs /\ runs[id].pc = "done"

C22_RunsTerminate ==
    /\ \A id \in TestIds :
          (id \in DOMAIN TEST_STATUSES)
             ~> (id \in DOMAIN TEST_STATUSES /\ TEST_STATUSES[id]["status"] \in Terminal)
    /\ [](\A id \in TestIds :
             RunEnded(id) =>
                /\ runs[id].result = "exit0" <=> TEST_STATUSES[id]["status"] = "success"
                /\ runs[id].result \in {"exit1", "FileNotFoundError", "Exception"}
                      <=> TEST_STATUSES[id]["status"] = "error"
                /\ TEST_STATUSES[id]["status"] = "error"
                      => "error" \in DOMAIN TEST_STATUSES[id])

C22_Witness ==
    /\ RunEnded("t1") /\ RunEnded("t2")
    /\ runs["t1"].result = "Exception"
    /\ TEST_STATUSES["t1"]["status"] = "error"
    /\ TEST_STATUSES["t1"]["error"] = "An unexpected error occurred: boom"
    /\ "output" \notin DOMAIN TEST_STATUSES["t1"]
    /\ runs["t2"].result = "exit1"
    /\ TEST_STATUSES["t2"]["status"] = "error"
    /\ TEST_STATUSES["t2"]["error"] = "Test failed with non-zero exit code."
    /\ TEST_STATUSES["t2"]["output"] = "1 passed"

====
